---- MODULE Spec2Model ----
(***************************************************************************)
(* A model of SequenceEngine (src/app/ui/sequencer_editor.py): the         *)
(* interpreter that walks a sequence graph node by node on a cooperative   *)
(* asyncio scheduler, with breakpoints, single stepping, fork/join and     *)
(* loops.  A coroutine is a frame with a program counter named after the   *)
(* source line it is suspended at; `cur' is the task that holds the        *)
(* scheduler, so the code between two awaits runs without interleaving.    *)
(***************************************************************************)
EXTENDS Integers, Sequences, FiniteSets, TLC

(***************************************************************************)
(* Bounds of the model.                                                    *)
(***************************************************************************)
\* coroutine frames alive at once
MaxWalkers == 5
\* walks started by run() on one engine
MaxRuns == 2
\* restarts of a loop=true run
MaxPasses == 1
\* line 976: the cap of a While Loop, 1000 in the source
max_iterations == 2

Walkers == 1..MaxWalkers
NoTask == 0
MainTask == MaxWalkers + 1

(***************************************************************************)
(* Python values: None, bool, float, str, and the dict a Join keeps in the *)
(* execution context.  Unbound is a local variable never assigned.         *)
(***************************************************************************)
Val(t, n, s, b, a, e) ==
    [t |-> t, n |-> n, s |-> s, b |-> b, arrivals |-> a, expected |-> e]
VNone == Val("None", 0, "", FALSE, 0, 0)
Unbound == Val("unbound", 0, "", FALSE, 0, 0)
VBool(b) == Val("bool", 0, "", b, 0, 0)
VFloat(n) == Val("float", n, "", FALSE, 0, 0)
VStr(s) == Val("str", 0, s, FALSE, 0, 0)
VJoin(a, e) == Val("dict", 0, "", FALSE, a, e)
WAITING_FOR_JOIN == VStr("WAITING_FOR_JOIN")
Finished == VStr("Finished")
LoopBody == VStr("Loop Body")

\* float(text): the literals that parse, and the number each denotes.
FloatLiterals ==
    ("0" :> 0) @@ ("1" :> 1) @@ ("3" :> 3) @@ ("3.0" :> 3) @@ ("5" :> 5) @@ (" 5 " :> 5)

\* try: float(text) except (ValueError, TypeError): text
ParseNumberOrText(text) ==
    IF text \in DOMAIN FloatLiterals THEN VFloat(FloatLiterals[text]) ELSE VStr(text)

\* str.lower() of the literals the model uses.
Lower(s) ==
    CASE s = "True" -> "true"
      [] s = "TRUE" -> "true"
      [] s = "T" -> "t"
      [] OTHER -> s

\* bool is a subclass of int: True == 1.0 in Python.
IsNumber(v) == v.t \in {"bool", "float"}
NumberOf(v) == IF v.t = "bool" THEN (IF v.b THEN 1 ELSE 0) ELSE v.n

\* a == b on Python values
PyEq(a, b) ==
    CASE IsNumber(a) /\ IsNumber(b) -> NumberOf(a) = NumberOf(b)
      [] a.t = "str" /\ b.t = "str" -> a.s = b.s
      [] a.t = "None" /\ b.t = "None" -> TRUE
      [] OTHER -> FALSE

(***************************************************************************)
(* The graph: nodes, execution connections, data connections.              *)
(***************************************************************************)
NoConfig ==
    [static_value |-> "", node_id |-> "", has_argument |-> FALSE,
     use_connected_input |-> FALSE, argument_value |-> "",
     sequence_name |-> "", iterations |-> 1,
     while_negate_condition |-> TRUE, while_condition_value |-> ""]

Node(uuid, type, bp, config) ==
    [uuid |-> uuid, node_type |-> type, has_breakpoint |-> bp, config |-> config]

\* condition None
NoCondition ==
    [present |-> FALSE, type |-> "", operator |-> "", has_value |-> FALSE,
     value |-> "", expression |-> ""]
\* {'operator': op}
OpCondition(op) == [NoCondition EXCEPT !.present = TRUE, !.operator = op]
\* {'operator': op, 'value': v}
CmpCondition(op, v) ==
    [NoCondition EXCEPT !.present = TRUE, !.operator = op, !.has_value = TRUE, !.value = v]

Conn(s, e, c) == [start_node_uuid |-> s, end_node_uuid |-> e, condition |-> c]
NoConn == Conn("", "", NoCondition)
DataConn(s, e, label) ==
    [start_node_uuid |-> s, end_node_uuid |-> e, end_socket_label |-> label]

Sequence(nodes, exec, data) ==
    [nodes |-> nodes, exec_connections |-> exec, data_connections |-> data]

Range(f) == {f[i] : i \in DOMAIN f}

\* node_map = {node['uuid']: node for node in sequence_data['nodes']}
NodeUuids(sequence_data) == {n.uuid : n \in Range(sequence_data.nodes)}
\* a dict built from a list keeps the last entry of a repeated key
NodeOf(sequence_data, uuid) ==
    LET idx == {i \in DOMAIN sequence_data.nodes : sequence_data.nodes[i].uuid = uuid}
    IN sequence_data.nodes[CHOOSE i \in idx : \A j \in idx : j <= i]

\* a faulty variant of find_start_node: the first node of the list, whatever
\* connections end at it
first_listed_node(sequence_data) ==
    IF sequence_data.nodes = <<>> THEN "" ELSE sequence_data.nodes[1].uuid

(***************************************************************************)
(* find_start_node: the first node, in list order, that no execution       *)
(* connection ends at; "" stands for None.                                 *)
(***************************************************************************)
find_start_node(sequence_data) ==
    LET nodes == sequence_data.nodes
        end_node_uuids == {c.end_node_uuid : c \in Range(sequence_data.exec_connections)}
        free == {i \in DOMAIN nodes : nodes[i].uuid \notin end_node_uuids}
    IN IF free = {} THEN ""
       ELSE nodes[CHOOSE i \in free : \A j \in free : i <= j].uuid

(***************************************************************************)
(* evaluate_condition                                                      *)
(***************************************************************************)
\* the literal of a simple condition, coerced to the type of the result
CoerceLiteral(result, val_str) ==
    CASE result.t = "bool" -> VBool(Lower(val_str) \in {"true", "1", "t"})
      [] result.t = "float" -> ParseNumberOrText(val_str)
      [] OTHER -> VStr(val_str)

\* ops_map[op](a, b), with TypeError caught as False; the graphs below
\* order no two strings
ApplyOperator(op, a, b) ==
    LET ordered == IsNumber(a) /\ IsNumber(b)
    IN CASE op = "==" -> PyEq(a, b)
         [] op = "!=" -> ~PyEq(a, b)
         [] op = ">" -> ordered /\ NumberOf(a) > NumberOf(b)
         [] op = "<" -> ordered /\ NumberOf(a) < NumberOf(b)
         [] op = ">=" -> ordered /\ NumberOf(a) >= NumberOf(b)
         [] op = "<=" -> ordered /\ NumberOf(a) <= NumberOf(b)
         [] OTHER -> FALSE

\* lines 1595-1602 hand a non-empty expression to eval(); the graphs below
\* carry no expression, and an empty one holds
evaluate_condition(connection_data, result) ==
    LET condition == connection_data.condition
        op == condition.operator
    IN IF ~condition.present THEN TRUE
       ELSE IF condition.type = "expression" THEN condition.expression = ""
       ELSE IF op = "No Condition" THEN TRUE
       ELSE IF op \in {"Loop Body", "Finished"} THEN PyEq(result, VStr(op))
       ELSE IF op = "is True" THEN result = VBool(TRUE)
       ELSE IF op = "is False" THEN result = VBool(FALSE)
       ELSE IF ~condition.has_value THEN FALSE
       ELSE ApplyOperator(op, result, CoerceLiteral(result, condition.value))

\* a search that keeps the last connection that holds instead of the first
last_matching_connection(current_node_uuid, result, sequence_data) ==
    LET ec == sequence_data.exec_connections
        hits == {i \in DOMAIN ec : /\ ec[i].start_node_uuid = current_node_uuid
                                   /\ evaluate_condition(ec[i], result)}
    IN IF hits = {} THEN NoConn
       ELSE ec[CHOOSE i \in hits : \A j \in hits : i >= j]

(***************************************************************************)
(* find_next_node_and_connection: the first connection, in list order,     *)
(* that leaves the node and whose condition holds; NoConn stands for       *)
(* (None, None).                                                           *)
(***************************************************************************)
find_next_node_and_connection(current_node_uuid, result, sequence_data) ==
    LET ec == sequence_data.exec_connections
        hits == {i \in DOMAIN ec : /\ ec[i].start_node_uuid = current_node_uuid
                                   /\ evaluate_condition(ec[i], result)}
    IN IF hits = {} THEN NoConn
       ELSE ec[CHOOSE i \in hits : \A j \in hits : i <= j]

(***************************************************************************)
(* The projects a user can hand to run(): each maps sequence names to      *)
(* graphs.  Node uuids are unique within a project.                        *)
(***************************************************************************)
StaticValue(uuid, bp, text) ==
    Node(uuid, "Static Value", bp, [NoConfig EXCEPT !.static_value = text])
Delay(uuid, bp) == Node(uuid, "Delay", bp, NoConfig)
WriteValue(uuid, node_id, text) ==
    Node(uuid, "Write Value", FALSE,
         [NoConfig EXCEPT !.node_id = node_id, !.argument_value = text])
\* a Write Value as the editor creates it (has_argument), reading its value
\* from a data connection when connected is TRUE
WriteInput(uuid, node_id, text, connected) ==
    Node(uuid, "Write Value", FALSE,
         [NoConfig EXCEPT !.node_id = node_id, !.argument_value = text,
                          !.has_argument = TRUE, !.use_connected_input = connected])
RunSequence(uuid, name) ==
    Node(uuid, "Run Sequence", FALSE, [NoConfig EXCEPT !.sequence_name = name])
Fork(uuid) == Node(uuid, "Fork", FALSE, NoConfig)
Join(uuid) == Node(uuid, "Join", FALSE, NoConfig)
ForLoop(uuid, n) == Node(uuid, "For Loop", FALSE, [NoConfig EXCEPT !.iterations = n])
WhileLoop(uuid, text, negate) ==
    Node(uuid, "While Loop", FALSE,
         [NoConfig EXCEPT !.while_condition_value = text,
                          !.while_negate_condition = negate])

\* Fork -> {A2, B2} -> Join (breakpoint) -> Delay
SeqFJ2 ==
    Sequence(<<Fork("F2"), StaticValue("A2", FALSE, "1"), StaticValue("B2", FALSE, "x"),
               Node("J2", "Join", TRUE, NoConfig), Delay("D2", FALSE)>>,
             <<Conn("F2", "A2", NoCondition), Conn("F2", "B2", NoCondition),
               Conn("A2", "J2", NoCondition), Conn("B2", "J2", NoCondition),
               Conn("J2", "D2", NoCondition)>>,
             <<>>)
\* Fork -> A1 -> Join -> D1
SeqFJ1 ==
    Sequence(<<Fork("F1"), StaticValue("A1", FALSE, "1"), Join("J1"),
               StaticValue("D1", FALSE, "5")>>,
             <<Conn("F1", "A1", NoCondition), Conn("A1", "J1", NoCondition),
               Conn("J1", "D1", NoCondition)>>,
             <<>>)
\* N1 (breakpoint) -> N2 -> N3 (breakpoint)
SeqLin ==
    Sequence(<<StaticValue("N1", TRUE, "1"), StaticValue("N2", FALSE, "3.0"),
               StaticValue("N3", TRUE, "5")>>,
             <<Conn("N1", "N2", NoCondition), Conn("N2", "N3", CmpCondition("==", "3"))>>,
             <<>>)
\* M0 (breakpoint) -> Run Sequence "Sub" -> E ;  Sub: X (breakpoint) -> Y
SeqMain ==
    Sequence(<<StaticValue("M0", TRUE, "0"), RunSequence("R", "Sub"),
               StaticValue("E", FALSE, "1")>>,
             <<Conn("M0", "R", NoCondition), Conn("R", "E", NoCondition)>>,
             <<>>)
SeqSub ==
    Sequence(<<StaticValue("X", TRUE, "1"), StaticValue("Y", FALSE, "text")>>,
             <<Conn("X", "Y", NoCondition)>>,
             <<>>)
\* G -> Write Value with no target -> H
SeqBad ==
    Sequence(<<StaticValue("G", FALSE, "1"), WriteValue("W", "", "1"),
               StaticValue("H", FALSE, "1")>>,
             <<Conn("G", "W", NoCondition), Conn("W", "H", NoCondition)>>,
             <<>>)
\* Static Value "3" feeds a While Loop that continues while the value equals 3
SeqWh ==
    Sequence(<<StaticValue("Src", FALSE, "3"), WhileLoop("Wl", "3.0", FALSE),
               StaticValue("Bd", FALSE, "1"), StaticValue("En", FALSE, "1")>>,
             <<Conn("Src", "Wl", NoCondition), Conn("Wl", "Bd", OpCondition("Loop Body")),
               Conn("Wl", "En", OpCondition("Finished"))>>,
             <<DataConn("Src", "Wl", "")>>)
\* Static Value "3" feeds a While Loop that continues until the value equals 3
SeqWn ==
    Sequence(<<StaticValue("Sn", FALSE, "3"), WhileLoop("Wz", "3", TRUE),
               StaticValue("Bz", FALSE, "1"), StaticValue("Ez", FALSE, "1")>>,
             <<Conn("Sn", "Wz", NoCondition), Conn("Wz", "Bz", OpCondition("Loop Body")),
               Conn("Wz", "Ez", OpCondition("Finished"))>>,
             <<DataConn("Sn", "Wz", "")>>)
\* V1 feeds Wc; We and Wd are fed by Late, which runs after them
SeqArg ==
    Sequence(<<StaticValue("V1", FALSE, "5"), WriteInput("Wc", "X", "1", TRUE),
               WriteInput("We", "X", "ON", FALSE), WriteInput("Wd", "X", "1", TRUE),
               StaticValue("Late", FALSE, "3")>>,
             <<Conn("V1", "Wc", NoCondition), Conn("Wc", "We", NoCondition),
               Conn("We", "Wd", NoCondition), Conn("Wd", "Late", NoCondition)>>,
             <<DataConn("V1", "Wc", ""), DataConn("Late", "We", ""),
               DataConn("Late", "Wd", "")>>)
\* a Write Value set to read a data connection that does not exist
SeqArg2 ==
    Sequence(<<WriteInput("Wb", "X", "1", TRUE)>>, <<>>, <<>>)
\* Static Value -> Write Value to the target "X"
SeqWr ==
    Sequence(<<WriteValue("Wv", "X", "5"), StaticValue("V", FALSE, "5")>>,
             <<Conn("V", "Wv", NoCondition)>>,
             <<>>)
\* For Loop of two iterations over the body Bf, then Ef
SeqFor ==
    Sequence(<<ForLoop("Fl", 2), StaticValue("Bf", FALSE, "1"), StaticValue("Ef", FALSE, "1")>>,
             <<Conn("Fl", "Bf", OpCondition("Loop Body")),
               Conn("Fl", "Ef", OpCondition("Finished"))>>,
             <<>>)
\* every node is the target of an execution connection
SeqCyc ==
    Sequence(<<StaticValue("P", FALSE, "1"), StaticValue("Q", FALSE, "1")>>,
             <<Conn("P", "Q", NoCondition), Conn("Q", "P", NoCondition)>>,
             <<>>)

\* a Run Sequence node that calls the Fork/Join sequence "FJ1"
\* and goes on to Ok when the sub-run yields 5, to No when it yields 1;
\* the edge that leaves Ok ends at "Gone", which is no node of the sequence
SeqCall ==
    Sequence(<<RunSequence("Rc", "FJ1"), StaticValue("No", FALSE, "0"),
               StaticValue("Ok", FALSE, "1")>>,
             <<Conn("Rc", "No", CmpCondition("==", "1")),
               Conn("Rc", "Ok", CmpCondition("==", "5")),
               Conn("Ok", "Gone", NoCondition)>>,
             <<>>)
\* the value 3.0 of Nv meets an operator that is not in ops_map and two
\* literals that float() rejects
SeqNe ==
    Sequence(<<StaticValue("Nv", FALSE, "3"), StaticValue("Nx", FALSE, "0"),
               StaticValue("Ny", FALSE, "0"), StaticValue("Nz", FALSE, "0")>>,
             <<Conn("Nv", "Nx", CmpCondition("=", "3")),
               Conn("Nv", "Ny", CmpCondition(">", "abc")),
               Conn("Nv", "Nz", CmpCondition("!=", "abc"))>>,
             <<>>)
\* a For Loop, a While Loop and a Fork whose body or branch is a Write Value
\* without node_id, which fails
SeqNp ==
    Sequence(<<ForLoop("Fb", 2), WriteValue("Wq", "", "1"), WhileLoop("Wb", "3", FALSE),
               StaticValue("Sw", FALSE, "3"), WriteValue("Wy", "", "1"), Fork("Fk"),
               WriteValue("Wk", "", "1")>>,
             <<Conn("Fb", "Wq", OpCondition("Loop Body")),
               Conn("Fb", "Wb", OpCondition("Finished")),
               Conn("Wb", "Wy", OpCondition("Loop Body")),
               Conn("Wb", "Fk", OpCondition("Finished")),
               Conn("Fk", "Wk", NoCondition)>>,
             <<DataConn("Sw", "Wb", "")>>)
\* a sequence made of one Run Sequence node
Caller(uuid, name) == Sequence(<<RunSequence(uuid, name)>>, <<>>, <<>>)
\* a Fork that no connection leaves
SeqF0 ==
    Sequence(<<Fork("F0")>>, <<>>, <<>>)

Project1 ==
    [name \in {"FJ2", "FJ1", "Lin", "Main", "Sub", "Bad", "Wh", "Wr", "For", "Wn",
                 "Arg", "Arg2", "F0", "Call", "C0", "Cu", "Cf",
                 "Ne", "Np"} |->
        CASE name = "FJ2" -> SeqFJ2
          [] name = "Ne" -> SeqNe
          [] name = "Np" -> SeqNp
          [] name = "C0" -> Caller("R0", "")
          [] name = "Cu" -> Caller("Ru", "Nope")
          [] name = "Cf" -> Caller("Rf", "Bad")
          [] name = "Call" -> SeqCall
          [] name = "F0" -> SeqF0
          [] name = "Arg" -> SeqArg
          [] name = "Arg2" -> SeqArg2
          [] name = "Wn" -> SeqWn
          [] name = "Wr" -> SeqWr
          [] name = "For" -> SeqFor
          [] name = "FJ1" -> SeqFJ1
          [] name = "Lin" -> SeqLin
          [] name = "Main" -> SeqMain
          [] name = "Sub" -> SeqSub
          [] name = "Bad" -> SeqBad
          [] OTHER -> SeqWh]
Project2 ==
    [name \in {"Cyc", "Cz"} |-> IF name = "Cyc" THEN SeqCyc ELSE Caller("Rz", "Cyc")]
Projects == <<Project1, Project2>>
\* all_sequences holds the index of a project; NoProject is the empty dict
NoProject == 0

SeqData(proj, name) == Projects[proj][name]
SeqNames(proj) == IF proj = NoProject THEN {} ELSE DOMAIN Projects[proj]

(***************************************************************************)
(* State.                                                                  *)
(***************************************************************************)
VARIABLES
    debug_state,            \* DebugState: "IDLE", "RUNNING", "PAUSED"
    is_running,
    stop_requested,         \* _stop_requested
    current_sequence_name,
    is_looping,
    execution_context,      \* uuid -> value
    all_sequences,          \* index of the project handed to run()
    pause_event,            \* _pause_event.is_set()
    step_event,             \* _step_event.is_set()
    step_into,              \* _step_into
    walkers,                \* the _execute_graph coroutines
    main,                   \* the _run_main_loop task
    cur,                    \* the task that is running, NoTask between tasks
    emitted,                \* what the last step emitted: signals, a control call
    started,                \* uuid -> times the node went "running" since run()
    finished,               \* was_stopped of each execution_finished since run()
    first_node,             \* the first node that went "running" since run()
    stepping,               \* nodes started since the last step call, -1 once paused
    last_cmd,               \* the last control call that passed its guard
    top_failed,             \* a node of the top-level walk failed since run()
    runs,                   \* walks started by run()
    passes                  \* restarts of a looping run

engineVars ==
    <<debug_state, is_running, stop_requested, current_sequence_name, is_looping,
      execution_context, all_sequences, pause_event, step_event, step_into>>
taskVars == <<walkers, main, cur>>
obsVars == <<emitted, started, finished, first_node, stepping>>
countVars == <<runs, passes, last_cmd, top_failed>>
vars == <<engineVars, taskVars, obsVars, countVars>>

(***************************************************************************)
(* What a step lets the outside see.                                      *)
(***************************************************************************)
Ev(e, seq, a, b, st, flag) ==
    [e |-> e, seq |-> seq, a |-> a, b |-> b, st |-> st, flag |-> flag]
\* node_state_changed.emit(sequence_name, uuid, state)
NodeState(seq, uuid, st) == Ev("node", seq, uuid, "", st, FALSE)
\* connection_state_changed.emit(sequence_name, start, end, state)
ConnState(seq, c, st) == Ev("conn", seq, c.start_node_uuid, c.end_node_uuid, st, FALSE)
\* execution_paused.emit(sequence_name, uuid)
Paused(seq, uuid) == Ev("paused", seq, uuid, "", "", FALSE)
\* execution_finished.emit(sequence_name, was_stopped)
ExecutionFinished(seq, was_stopped) == Ev("finished", seq, "", "", "", was_stopped)
\* a control call; flag tells whether it passed its debug_state guard
Call(op, accepted) == Ev("call", "", "", "", op, accepted)
\* a coroutine ended with an exception
Raised(seq) == Ev("raise", seq, "", "", "", FALSE)

IsRunning(ev) == ev.e = "node" /\ ev.st = "running"
Runnings(evs) == SelectSeq(evs, IsRunning)
\* started, with the nodes that go "running" in evs counted
Count(evs) ==
    LET r == Runnings(evs)
        new == {r[i].a : i \in DOMAIN r}
    IN [u \in DOMAIN started \cup new |->
          (IF u \in DOMAIN started THEN started[u] ELSE 0)
          + Cardinality({i \in DOMAIN r : r[i].a = u})]
FinishedFlags(evs) ==
    LET f == SelectSeq(evs, LAMBDA ev : ev.e = "finished")
    IN [i \in DOMAIN f |-> f[i].flag]
\* 2 stands for "two or more"
StepCount(evs) ==
    IF \E i \in DOMAIN evs : evs[i].e = "paused" THEN -1
    ELSE IF stepping < 0 THEN stepping
    ELSE IF stepping + Len(Runnings(evs)) > 2 THEN 2
    ELSE stepping + Len(Runnings(evs))

(***************************************************************************)
(* Frames.  pc names the line the coroutine is suspended at or about to    *)
(* execute.                                                                *)
(***************************************************************************)
FreeFrame ==
    [pc |-> "free", seq |-> "", proj |-> NoProject, node |-> "", sub |-> FALSE,
     active |-> NoConn, value |-> Unbound, nxt |-> "",
     ret |-> "", parent |-> NoTask,
     xnode |-> "", xret |-> "", rv |-> VNone, rs |-> FALSE,
     cv |-> VNone, cs |-> "",
     it |-> 0, body |-> "", src |-> "", xseq |-> "", xproj |-> NoProject,
     kids |-> {}]

\* _execute_graph(sequence_name, start_node, sequence_data, is_sub_sequence) entered
NewWalk(seq, proj, start, sub, ret, parent, pc) ==
    [FreeFrame EXCEPT !.pc = pc, !.seq = seq, !.proj = proj, !.node = start,
                      !.sub = sub, !.ret = ret, !.parent = parent]

NoMain == [pc |-> "none", start |-> "", seq |-> "", proj |-> NoProject]

FreeIds(ws) == {i \in Walkers : ws[i].pc = "free"}
\* the k-th free frame, counted from 1
NthFree(ws, k) ==
    CHOOSE i \in FreeIds(ws) : Cardinality({j \in FreeIds(ws) : j < i}) = k - 1

\* asyncio.Event.set(): every waiter's future is resolved
WakeWaiters(ws, waiting, ready) ==
    [i \in Walkers |-> IF ws[i].pc = waiting THEN [ws[i] EXCEPT !.pc = ready] ELSE ws[i]]

Init ==
    /\ debug_state = "IDLE"
    /\ is_running = FALSE
    /\ stop_requested = FALSE
    /\ current_sequence_name = ""
    /\ is_looping = FALSE
    /\ execution_context = <<>>
    /\ all_sequences = NoProject
    /\ pause_event = FALSE
    /\ step_event = FALSE
    /\ step_into = FALSE
    /\ walkers = [i \in Walkers |-> FreeFrame]
    /\ main = NoMain
    /\ cur = NoTask
    /\ emitted = <<>>
    /\ started = <<>>
    /\ finished = <<>>
    /\ first_node = ""
    /\ stepping = -1
    /\ last_cmd = ""
    /\ top_failed = FALSE
    /\ runs = 0
    /\ passes = 0

(***************************************************************************)
(* Helpers of the actions.                                                 *)
(***************************************************************************)
dbgVars == <<debug_state, pause_event, step_event, step_into>>
runVars == <<is_running, stop_requested, current_sequence_name, is_looping, all_sequences>>

Emit(evs) ==
    /\ emitted' = evs
    /\ started' = Count(evs)
    /\ finished' = finished \o FinishedFlags(evs)
    /\ first_node' = IF first_node = "" /\ Runnings(evs) # <<>>
                     THEN Runnings(evs)[1].a ELSE first_node
    /\ stepping' = StepCount(evs)
Set(w, frame) == walkers' = [walkers EXCEPT ![w] = frame]
\* self.all_sequences[self.current_sequence_name]
CurrentData == SeqData(all_sequences, current_sequence_name)
\* the sequence_data a walker was called with
DataOf(w) == SeqData(walkers[w].proj, walkers[w].seq)

(***************************************************************************)
(* The public control surface.  The caller is the UI, on the same thread   *)
(* as the scheduler, so a call happens between two task steps.             *)
(***************************************************************************)
\* a faulty variant of RunGuard: run() goes on in any state
AnyState == TRUE
\* line 735: run() goes on only from Idle
RunGuard == debug_state = "IDLE"
\* lines 707, 713, 721: resume and the step calls act only when Paused
PausedGuard == debug_state = "PAUSED"
\* line 761
StopGuard == debug_state # "IDLE"

RefusedCall(op) ==
    /\ emitted' = <<Call(op, FALSE)>>
    /\ UNCHANGED <<engineVars, taskVars, started, finished, first_node, stepping, countVars>>

run(sequence_name, seqs, loop) ==
    /\ cur = NoTask
    /\ IF ~RunGuard THEN RefusedCall("run")
       ELSE LET start_node == find_start_node(SeqData(seqs, sequence_name)) IN
            \* a further run() is explored once the tasks of the run before
            \* it have all ended
            /\ FreeIds(walkers) = Walkers
            /\ current_sequence_name' = sequence_name
            /\ is_looping' = loop
            /\ all_sequences' = seqs
            /\ execution_context' = <<>>
            /\ started' = <<>>
            /\ first_node' = ""
            /\ stepping' = -1
            /\ top_failed' = FALSE
            /\ last_cmd' = "run"
            /\ IF start_node = ""
               THEN /\ emitted' = <<Call("run", TRUE),
                                    ExecutionFinished(sequence_name, FALSE)>>
                    /\ finished' = <<FALSE>>
                    /\ UNCHANGED <<debug_state, is_running, stop_requested, dbgVars,
                                   taskVars, runs, passes>>
               ELSE /\ runs < MaxRuns
                    /\ debug_state' = "RUNNING"
                    /\ is_running' = TRUE
                    /\ stop_requested' = FALSE
                    /\ pause_event' = TRUE
                    /\ walkers' = WakeWaiters(walkers, "L823_wait", "L823_ready")
                    /\ main' = [pc |-> "submitted", start |-> start_node,
                                seq |-> sequence_name, proj |-> seqs]
                    /\ emitted' = <<Call("run", TRUE)>>
                    /\ finished' = <<>>
                    /\ runs' = runs + 1
                    /\ passes' = 0
                    /\ UNCHANGED <<step_event, step_into, cur>>

Accepted(op) ==
    /\ emitted' = <<Call(op, TRUE)>>
    /\ last_cmd' = op
    /\ UNCHANGED <<started, finished, first_node, runs, passes, top_failed>>

resume ==
    /\ cur = NoTask
    /\ IF ~PausedGuard THEN RefusedCall("resume")
       ELSE /\ pause_event' = TRUE
            /\ walkers' = WakeWaiters(walkers, "L823_wait", "L823_ready")
            /\ Accepted("resume")
            /\ UNCHANGED <<debug_state, step_event, step_into, runVars,
                           execution_context, main, cur, stepping>>

\* step_over() is step(FALSE, "stepOver"), step_into() is step(TRUE, "stepInto")
step(into, op) ==
    /\ cur = NoTask
    /\ IF ~PausedGuard THEN RefusedCall(op)
       ELSE /\ step_into' = into
            /\ step_event' = TRUE
            /\ pause_event' = TRUE
            /\ walkers' = WakeWaiters(WakeWaiters(walkers, "L827_wait", "L827_ready"),
                                      "L823_wait", "L823_ready")
            /\ Accepted(op)
            /\ stepping' = 0
            /\ UNCHANGED <<debug_state, runVars, execution_context, main, cur>>

step_over == step(FALSE, "stepOver")
step_into_call == step(TRUE, "stepInto")

stop ==
    /\ cur = NoTask
    /\ IF ~StopGuard THEN RefusedCall("stop")
       ELSE /\ is_looping' = FALSE
            /\ stop_requested' = TRUE
            /\ IF PausedGuard
               THEN /\ pause_event' = TRUE
                    /\ walkers' = WakeWaiters(walkers, "L823_wait", "L823_ready")
               ELSE UNCHANGED <<pause_event, walkers>>
            /\ Accepted("stop")
            /\ UNCHANGED <<debug_state, step_event, step_into, is_running,
                           current_sequence_name, all_sequences, execution_context,
                           main, cur, stepping>>

(***************************************************************************)
(* A coroutine returns (or raises) to whoever awaits it: _run_main_loop,   *)
(* the executor that called it, or the gather of a Fork.  st is "ok",      *)
(* "fail" or "raise".                                                      *)
(***************************************************************************)
\* an await that takes a failed walk for an exception
PropagatesFailure(status) == status # "ok"
\* an await re-raises the exception of the walk it awaited; a returned
\* (value, success) pair is only a result
Propagates(status) == status = "raise"
\* a wait that is over as soon as one task is done
FirstDone(pending) == TRUE
\* line 1339, asyncio.gather: the wait is over when no task is pending
GatherDone(pending) == pending = {}

Return(w, v, st) ==
    LET f == walkers[w]
        p == f.parent
    IN IF f.ret = "main" THEN
            /\ walkers' = [walkers EXCEPT ![w] = FreeFrame]
            /\ main' = [main EXCEPT !.pc = "L779"]
            /\ cur' = MainTask
       ELSE IF f.ret = "await" THEN
            /\ walkers' = [walkers EXCEPT ![w] = FreeFrame,
                                          ![p] = [@ EXCEPT !.cv = v, !.cs = st]]
            /\ cur' = p
            /\ UNCHANGED main
       ELSE IF f.ret = "task" THEN
            \* asyncio.gather: the first exception ends the wait, the other
            \* tasks run on; otherwise the wait ends with the last task
            /\ walkers' = [i \in Walkers |->
                  IF i = w THEN FreeFrame
                  ELSE IF i = p THEN
                       IF Propagates(st)
                       THEN [walkers[p] EXCEPT !.pc = "L1339_raise", !.kids = {}]
                       ELSE [walkers[p] EXCEPT
                               !.kids = @ \ {w},
                               !.pc = IF GatherDone(walkers[p].kids \ {w})
                                      THEN "L1339_ready" ELSE "L1339"]
                  ELSE IF Propagates(st) /\ i \in walkers[p].kids
                       THEN [walkers[i] EXCEPT !.ret = "orphan", !.parent = NoTask]
                  ELSE walkers[i]]
            /\ cur' = NoTask
            /\ UNCHANGED main
       ELSE /\ walkers' = [walkers EXCEPT ![w] = FreeFrame]
            /\ cur' = NoTask
            /\ UNCHANGED main

(***************************************************************************)
(* _run_main_loop                                                          *)
(***************************************************************************)
\* the task submitted by run() or by a restart starts: line 778
MainStart ==
    /\ cur = NoTask
    /\ main.pc = "submitted"
    /\ FreeIds(walkers) # {}
    /\ LET w == NthFree(walkers, 1) IN
         /\ Set(w, NewWalk(current_sequence_name, main.proj, main.start, FALSE,
                           "main", NoTask, "L816"))
         /\ cur' = w
    /\ main' = [main EXCEPT !.pc = "L778"]
    /\ Emit(<<>>)
    /\ UNCHANGED <<engineVars, countVars>>

\* line 782: does a finished pass restart?
Restarts == is_looping /\ ~stop_requested

\* the finally block, lines 779-792
MainFinally ==
    /\ cur = MainTask
    /\ main.pc = "L779"
    /\ cur' = NoTask
    /\ IF Restarts
       THEN /\ main' = [main EXCEPT !.pc = "L784"]
            /\ Emit(<<>>)
            /\ UNCHANGED <<engineVars, walkers, countVars>>
       ELSE /\ debug_state' = "IDLE"
            /\ is_running' = FALSE
            /\ stop_requested' = FALSE
            /\ is_looping' = FALSE
            /\ main' = NoMain
            /\ Emit(<<ExecutionFinished(current_sequence_name, stop_requested)>>)
            /\ UNCHANGED <<current_sequence_name, all_sequences, execution_context,
                           pause_event, step_event, step_into, walkers, countVars>>

\* lines 784-785: the sleep ends and the next pass is submitted
MainRestart ==
    /\ cur = NoTask
    /\ main.pc = "L784"
    /\ passes < MaxPasses
    /\ main' = [main EXCEPT !.pc = "submitted"]
    /\ passes' = passes + 1
    /\ Emit(<<>>)
    /\ UNCHANGED <<engineVars, walkers, cur, runs, last_cmd, top_failed>>

(***************************************************************************)
(* _execute_graph, lines 811-860                                           *)
(***************************************************************************)
\* line 818: a breakpoint in a sub-sequence counts only in step-into mode
BreakpointCounts(w) == ~(walkers[w].sub /\ ~step_into)

\* lines 816-821: the loop test and the breakpoint
LoopTest(w) ==
    /\ cur = w
    /\ walkers[w].pc = "L816"
    /\ LET f == walkers[w] IN
       IF f.node # "" /\ ~stop_requested
       THEN /\ Set(w, [f EXCEPT !.pc = "L823"])
            /\ IF /\ NodeOf(DataOf(w), f.node).has_breakpoint
                  /\ pause_event
                  /\ BreakpointCounts(w)
               THEN /\ debug_state' = "PAUSED"
                    /\ pause_event' = FALSE
                    /\ Emit(<<Paused(f.seq, f.node)>>)
               ELSE /\ Emit(<<>>)
                    /\ UNCHANGED <<debug_state, pause_event>>
       ELSE /\ Set(w, [f EXCEPT !.pc = "L857"])
            /\ Emit(<<>>)
            /\ UNCHANGED <<debug_state, pause_event>>
    /\ UNCHANGED <<step_event, step_into, runVars, execution_context, main, cur, countVars>>

\* line 823: await self._pause_event.wait()
PauseGate(w) ==
    /\ cur = w
    /\ walkers[w].pc = "L823"
    /\ IF pause_event
       THEN Set(w, [walkers[w] EXCEPT !.pc = "L825"]) /\ UNCHANGED cur
       ELSE Set(w, [walkers[w] EXCEPT !.pc = "L823_wait"]) /\ cur' = NoTask
    /\ Emit(<<>>)
    /\ UNCHANGED <<engineVars, main, countVars>>

\* the waiter of line 823 runs again after _pause_event.set()
PauseGateOpens(w) ==
    /\ cur = NoTask
    /\ walkers[w].pc = "L823_ready"
    /\ Set(w, [walkers[w] EXCEPT !.pc = "L825"])
    /\ cur' = w
    /\ Emit(<<>>)
    /\ UNCHANGED <<engineVars, main, countVars>>

\* lines 825-828
StepGate(w) ==
    /\ cur = w
    /\ walkers[w].pc = "L825"
    /\ IF debug_state = "PAUSED"
       THEN /\ debug_state' = "RUNNING"
            /\ IF step_event
               THEN /\ step_event' = FALSE
                    /\ Set(w, [walkers[w] EXCEPT !.pc = "L830"])
                    /\ UNCHANGED cur
               ELSE /\ Set(w, [walkers[w] EXCEPT !.pc = "L827_wait"])
                    /\ cur' = NoTask
                    /\ UNCHANGED step_event
       ELSE /\ Set(w, [walkers[w] EXCEPT !.pc = "L830"])
            /\ UNCHANGED <<debug_state, step_event, cur>>
    /\ Emit(<<>>)
    /\ UNCHANGED <<pause_event, step_into, runVars, execution_context, main, countVars>>

\* the waiter of line 827 runs again after _step_event.set(): line 828
StepGateOpens(w) ==
    /\ cur = NoTask
    /\ walkers[w].pc = "L827_ready"
    /\ step_event' = FALSE
    /\ Set(w, [walkers[w] EXCEPT !.pc = "L830"])
    /\ cur' = w
    /\ Emit(<<>>)
    /\ UNCHANGED <<debug_state, pause_event, step_into, runVars, execution_context,
                   main, countVars>>

\* lines 830-834: the connection that led here goes idle, the node goes "running"
\* a walker that has no connection in hand clears no highlight
NothingShown(conn) == FALSE
\* lines 830, 857: if active_connection_data:
Shown(conn) == conn # NoConn

StartNode(w) ==
    /\ cur = w
    /\ walkers[w].pc \in {"L830", "L834"}
    /\ LET f == walkers[w] IN
       IF f.pc = "L830" /\ Shown(f.active)
       THEN /\ Emit(<<ConnState(f.seq, f.active, "idle")>>)
            /\ Set(w, [f EXCEPT !.pc = "L832"])
            /\ cur' = NoTask
       ELSE /\ Emit(<<NodeState(f.seq, f.node, "running")>>)
            /\ Set(w, [f EXCEPT !.pc = "L893", !.xnode = f.node, !.xret = "L838"])
            /\ UNCHANGED cur
    /\ UNCHANGED <<engineVars, main, countVars>>

\* an asyncio.sleep ends and the coroutine goes on at the next line
AfterSleep(pc) ==
    CASE pc = "L832" -> "L834"
      [] pc = "L847" -> "L849"
      [] pc = "L853" -> "L855"
      [] pc = "L1010" -> "L977"
      [] pc = "L1185" -> "L1187"

TimerFires(w) ==
    /\ cur = NoTask
    /\ walkers[w].pc \in {"L832", "L847", "L853", "L1010", "L1185"}
    /\ Set(w, [walkers[w] EXCEPT !.pc = AfterSleep(@)])
    /\ cur' = w
    /\ Emit(<<>>)
    /\ UNCHANGED <<engineVars, main, countVars>>

\* a walker that takes no result for the parking of a branch
NeverJoinWait(value) == FALSE
\* line 839: value == "WAITING_FOR_JOIN"
IsJoinWait(value) == PyEq(value, WAITING_FOR_JOIN)

\* lines 838-847: what the executor returned
AfterExecute(w) ==
    /\ cur = w
    /\ walkers[w].pc = "L838"
    /\ LET f == walkers[w] IN
       IF ~f.rs
       THEN IF IsJoinWait(f.rv)
            THEN Emit(<<>>) /\ Return(w, VNone, "ok") /\ UNCHANGED top_failed
            ELSE /\ Emit(<<NodeState(f.seq, f.node, "failed")>>)
                 /\ Return(w, VNone, "fail")
                 /\ top_failed' = (top_failed \/ f.ret = "main")
       ELSE /\ Emit(<<NodeState(f.seq, f.node, "success")>>)
            /\ Set(w, [f EXCEPT !.pc = "L847", !.value = f.rv, !.rv = VNone, !.rs = FALSE,
                                !.xnode = "", !.xret = ""])
            /\ cur' = NoTask
            /\ UNCHANGED <<main, top_failed>>
    /\ UNCHANGED <<engineVars, runs, passes, last_cmd>>

\* lines 849-853: choose the next connection
FindNext(w) ==
    /\ cur = w
    /\ walkers[w].pc = "L849"
    /\ LET f == walkers[w]
           conn == find_next_node_and_connection(f.node, f.value, DataOf(w))
       IN IF conn # NoConn
          THEN /\ Emit(<<ConnState(f.seq, conn, "active")>>)
               /\ Set(w, [f EXCEPT !.pc = "L853", !.active = conn, !.nxt = conn.end_node_uuid])
               /\ cur' = NoTask
          ELSE /\ Emit(<<>>)
               /\ Set(w, [f EXCEPT !.pc = "L816", !.active = NoConn, !.node = ""])
               /\ UNCHANGED cur
    /\ UNCHANGED <<engineVars, main, countVars>>

\* line 855: current_node = node_map.get(next_node_uuid)
Advance(w) ==
    /\ cur = w
    /\ walkers[w].pc = "L855"
    /\ LET f == walkers[w] IN
       Set(w, [f EXCEPT !.pc = "L816", !.nxt = "",
                        !.node = IF f.nxt \in NodeUuids(DataOf(w)) THEN f.nxt ELSE ""])
    /\ Emit(<<>>)
    /\ UNCHANGED <<engineVars, main, cur, countVars>>

\* lines 857-860: the loop is left; `value' is unbound if it never ran
LeaveLoop(w) ==
    /\ cur = w
    /\ walkers[w].pc = "L857"
    /\ LET f == walkers[w]
           idle == IF Shown(f.active) THEN <<ConnState(f.seq, f.active, "idle")>> ELSE <<>>
       IN IF f.value = Unbound
          THEN Emit(idle \o <<Raised(f.seq)>>) /\ Return(w, VNone, "raise")
          ELSE Emit(idle) /\ Return(w, f.value, "ok")
    /\ UNCHANGED <<engineVars, countVars>>

(***************************************************************************)
(* execute_node and the executors.  An executor works on xnode and leaves  *)
(* its (value, success) in rv, rs at the line xret that called it: line    *)
(* 838 of the walker, or line 982 of a While Loop that executes its        *)
(* condition source.                                                       *)
(***************************************************************************)
Put(ctx, k, v) == (k :> v) @@ ctx
Del(ctx, k) == [x \in DOMAIN ctx \ {k} |-> ctx[x]]

\* the node_data the executor was handed
XNode(w) ==
    LET f == walkers[w] IN
    IF f.xret = "L838" THEN NodeOf(DataOf(w), f.xnode)
    ELSE NodeOf(SeqData(f.xproj, f.xseq), f.xnode)

Dispatch(w, type) ==
    /\ cur = w
    /\ walkers[w].pc = "L893"
    /\ XNode(w).node_type = type

\* the executor returns (v, ok) without having been suspended
Returns(w, v, ok) ==
    /\ Set(w, [walkers[w] EXCEPT !.pc = walkers[w].xret, !.rv = v, !.rs = ok])
    /\ UNCHANGED <<main, cur>>

\* faulty variants of resolve_argument_value: the literal is never used; a
\* source without a value gives the literal
resolve_from_edge_only(node_data, sequence_name) ==
    LET dc == SeqData(all_sequences, sequence_name).data_connections
        hits == {i \in DOMAIN dc : dc[i].end_node_uuid = node_data.uuid}
        source_node_uuid == dc[CHOOSE i \in hits : \A j \in hits : i <= j].start_node_uuid
    IN IF hits # {} /\ source_node_uuid \in DOMAIN execution_context
       THEN [ok |-> TRUE, value |-> execution_context[source_node_uuid]]
       ELSE [ok |-> FALSE, value |-> VNone]
resolve_with_default(node_data, sequence_name) ==
    LET dc == SeqData(all_sequences, sequence_name).data_connections
        hits == {i \in DOMAIN dc : dc[i].end_node_uuid = node_data.uuid}
        source_node_uuid == dc[CHOOSE i \in hits : \A j \in hits : i <= j].start_node_uuid
    IN IF hits # {} /\ source_node_uuid \in DOMAIN execution_context
       THEN [ok |-> TRUE, value |-> execution_context[source_node_uuid]]
       ELSE [ok |-> TRUE, value |-> ParseNumberOrText(node_data.config.argument_value)]
\* resolve_argument_value, lines 1100-1127: [ok, value]
resolve_argument_value(node_data, sequence_name) ==
    LET config == node_data.config
        dc == IF sequence_name \in SeqNames(all_sequences)
              THEN SeqData(all_sequences, sequence_name).data_connections ELSE <<>>
        hits == {i \in DOMAIN dc : dc[i].end_node_uuid = node_data.uuid}
        source_node_uuid == dc[CHOOSE i \in hits : \A j \in hits : i <= j].start_node_uuid
    IN IF ~config.has_argument \/ ~config.use_connected_input
       THEN [ok |-> TRUE, value |-> ParseNumberOrText(config.argument_value)]
       ELSE IF hits # {} /\ source_node_uuid # "" /\ source_node_uuid \in DOMAIN execution_context
       THEN [ok |-> TRUE, value |-> execution_context[source_node_uuid]]
       ELSE [ok |-> FALSE, value |-> VNone]

\* execute_static_value_node, lines 1238-1250
ExecStaticValue(w) ==
    /\ Dispatch(w, "Static Value")
    /\ LET value == ParseNumberOrText(XNode(w).config.static_value) IN
         /\ execution_context' = Put(execution_context, XNode(w).uuid, value)
         /\ Returns(w, value, TRUE)
    /\ Emit(<<>>)
    /\ UNCHANGED <<dbgVars, runVars, countVars>>

\* execute_delay_node, lines 1182-1185: the sleep starts
ExecDelay(w) ==
    /\ Dispatch(w, "Delay")
    /\ Set(w, [walkers[w] EXCEPT !.pc = "L1185"])
    /\ cur' = NoTask
    /\ Emit(<<>>)
    /\ UNCHANGED <<engineVars, main, countVars>>

\* lines 1186-1187: the sleep is over
DelayReturns(w) ==
    /\ cur = w
    /\ walkers[w].pc = "L1187"
    /\ Returns(w, VBool(TRUE), TRUE)
    /\ Emit(<<>>)
    /\ UNCHANGED <<engineVars, countVars>>

\* execute_write_value_node, lines 1205-1211: no target fails at once,
\* otherwise the client is asked for the target node
ExecWriteValue(w) ==
    /\ Dispatch(w, "Write Value")
    /\ IF XNode(w).config.node_id = ""
       THEN Returns(w, VNone, FALSE)
       ELSE Set(w, [walkers[w] EXCEPT !.pc = "L1211"]) /\ cur' = NoTask /\ UNCHANGED main
    /\ Emit(<<>>)
    /\ UNCHANGED <<engineVars, countVars>>

\* lines 1211-1217: find_node answers; the value is resolved
WriteResolves(w) ==
    /\ cur = NoTask
    /\ walkers[w].pc = "L1211"
    /\ \E found \in BOOLEAN :
         IF found /\ resolve_argument_value(XNode(w), current_sequence_name).ok
         THEN Set(w, [walkers[w] EXCEPT
                        !.pc = "L1217",
                        !.cv = resolve_argument_value(XNode(w),
                                                      current_sequence_name).value])
              /\ UNCHANGED cur
         ELSE Set(w, [walkers[w] EXCEPT !.pc = walkers[w].xret, !.rv = VNone, !.rs = FALSE])
              /\ cur' = w
    /\ Emit(<<>>)
    /\ UNCHANGED <<engineVars, main, countVars>>

\* lines 1217-1223: the write answers or throws
WriteReturns(w) ==
    /\ cur = NoTask
    /\ walkers[w].pc = "L1217"
    /\ \E ok \in BOOLEAN :
         Set(w, [walkers[w] EXCEPT !.pc = walkers[w].xret, !.rs = ok, !.cv = VNone,
                                   !.rv = IF ok THEN VBool(TRUE) ELSE VNone])
    /\ cur' = w
    /\ Emit(<<>>)
    /\ UNCHANGED <<engineVars, main, countVars>>

\* execute_join_node, lines 1542-1559
\* line 1545: the connections of the current top-level sequence that end here
NumIncoming(join_uuid) ==
    Cardinality({i \in DOMAIN CurrentData.exec_connections :
                    CurrentData.exec_connections[i].end_node_uuid = join_uuid})

JoinArrival(ctx, join_uuid) ==
    IF join_uuid \notin DOMAIN ctx
    THEN Put(ctx, join_uuid, VJoin(1, NumIncoming(join_uuid)))
    ELSE Put(ctx, join_uuid, [ctx[join_uuid] EXCEPT !.arrivals = @ + 1])

\* line 1553
JoinWaits(context) == context.arrivals < context.expected

ExecJoin(w) ==
    /\ Dispatch(w, "Join")
    /\ LET join_uuid == XNode(w).uuid
           ctx == JoinArrival(execution_context, join_uuid)
       IN IF JoinWaits(ctx[join_uuid])
          THEN /\ execution_context' = ctx
               /\ Returns(w, WAITING_FOR_JOIN, FALSE)
          ELSE /\ execution_context' = Del(ctx, join_uuid)
               /\ Returns(w, VBool(TRUE), TRUE)
    /\ Emit(<<>>)
    /\ UNCHANGED <<dbgVars, runVars, countVars>>

(***************************************************************************)
(* Executors that walk: Run Sequence, For Loop, While Loop, Fork.          *)
(***************************************************************************)
\* await self._execute_graph(...): the callee runs at once, in the caller's task
Calls(w, at, frame) ==
    /\ FreeIds(walkers) # {}
    /\ LET c == NthFree(walkers, 1) IN
         /\ walkers' = [walkers EXCEPT ![w] = [at EXCEPT !.cv = VNone, !.cs = ""],
                                       ![c] = frame]
         /\ cur' = c
    /\ UNCHANGED main

\* execute_run_sequence_node, lines 1061-1077
ExecRunSequence(w) ==
    /\ Dispatch(w, "Run Sequence")
    /\ walkers[w].xret = "L838"
    /\ LET sub_sequence_name == XNode(w).config.sequence_name
           known == sub_sequence_name # "" /\ sub_sequence_name \in SeqNames(all_sequences)
           start_node == find_start_node(SeqData(all_sequences, sub_sequence_name))
       IN IF known /\ start_node # ""
          THEN Calls(w, [walkers[w] EXCEPT !.pc = "L1077"],
                     NewWalk(sub_sequence_name, all_sequences, start_node, TRUE,
                             "await", w, "L816"))
          ELSE Returns(w, VNone, FALSE)
    /\ Emit(<<>>)
    /\ UNCHANGED <<engineVars, countVars>>

\* a caller that takes every sub-run for a success
AnyStatus(status) == TRUE
\* line 1077: the `success' of the pair the sub-run returned
SubRunSucceeded(status) == status = "ok"

\* lines 1077-1080: the sub-run is over
RunSequenceReturns(w) ==
    /\ cur = w
    /\ walkers[w].pc = "L1077"
    /\ LET f == walkers[w] IN
       IF Propagates(f.cs) THEN Return(w, VNone, "raise")
       ELSE /\ Set(w, [f EXCEPT !.pc = "L838", !.rv = f.cv, !.rs = SubRunSucceeded(f.cs),
                                !.cv = VNone, !.cs = ""])
            /\ UNCHANGED <<main, cur>>
    /\ Emit(<<>>)
    /\ UNCHANGED <<engineVars, countVars>>

\* the target of the first connection labelled "Loop Body", "" if there is none
LoopBodyStart(uuid) ==
    find_next_node_and_connection(uuid, LoopBody, CurrentData).end_node_uuid

\* execute_for_loop_node, lines 1029-1036
ExecForLoop(w) ==
    /\ Dispatch(w, "For Loop")
    /\ walkers[w].xret = "L838"
    /\ LET body == LoopBodyStart(XNode(w).uuid) IN
       IF body = ""
       THEN Returns(w, Finished, TRUE)
       ELSE /\ Set(w, [walkers[w] EXCEPT !.pc = "L1037", !.it = 0, !.body = body,
                                         !.xseq = current_sequence_name,
                                         !.xproj = all_sequences])
            /\ UNCHANGED <<main, cur>>
    /\ Emit(<<>>)
    /\ UNCHANGED <<engineVars, countVars>>

\* the executor is done: its loop fields are dropped
LoopReturns(w, v, ok) ==
    /\ Set(w, [walkers[w] EXCEPT !.pc = "L838", !.rv = v, !.rs = ok, !.it = 0,
                                 !.body = "", !.src = "", !.xseq = "", !.xproj = NoProject,
                                 !.xnode = walkers[w].node, !.xret = "L838", !.cv = VNone, !.cs = ""])
    /\ UNCHANGED <<main, cur>>

\* a range that takes one turn more
RangeAndOne(i, iterations) == i <= iterations
\* line 1037: i turns are done and range(iterations) gives another
InRange(i, iterations) == i < iterations

\* lines 1037-1046: one turn of `for i in range(iterations)'
ForIteration(w) ==
    /\ cur = w
    /\ walkers[w].pc = "L1037"
    /\ LET f == walkers[w]
           iterations == NodeOf(DataOf(w), f.node).config.iterations
       IN IF InRange(f.it, iterations) /\ ~stop_requested
          THEN IF f.body \in NodeUuids(SeqData(f.xproj, f.xseq))
               THEN Calls(w, [f EXCEPT !.pc = "L1044", !.it = @ + 1],
                          NewWalk(current_sequence_name, all_sequences, f.body, TRUE,
                                  "await", w, "L816"))
               ELSE Set(w, [f EXCEPT !.it = @ + 1]) /\ UNCHANGED <<main, cur>>
          ELSE LoopReturns(w, Finished, TRUE)
    /\ Emit(<<>>)
    /\ UNCHANGED <<engineVars, countVars>>

\* line 1044: a loop-body walk is over; its result is dropped
ForBodyReturns(w) ==
    /\ cur = w
    /\ walkers[w].pc = "L1044"
    /\ IF Propagates(walkers[w].cs) THEN Return(w, VNone, "raise")
       ELSE Set(w, [walkers[w] EXCEPT !.pc = "L1037", !.cv = VNone, !.cs = ""])
            /\ UNCHANGED <<main, cur>>
    /\ Emit(<<>>)
    /\ UNCHANGED <<engineVars, countVars>>

\* line 965: the source of the first data connection that ends at the loop
WhileSource(uuid) ==
    LET dc == CurrentData.data_connections
        hits == {i \in DOMAIN dc : dc[i].end_node_uuid = uuid}
    IN IF hits = {} THEN ""
       ELSE dc[CHOOSE i \in hits : \A j \in hits : i <= j].start_node_uuid

\* execute_while_loop_node, lines 952-976
ExecWhileLoop(w) ==
    /\ Dispatch(w, "While Loop")
    /\ walkers[w].xret = "L838"
    /\ LET uuid == XNode(w).uuid
           body == LoopBodyStart(uuid)
           source_node_uuid == WhileSource(uuid)
       IN IF body = "" THEN Returns(w, Finished, TRUE)
          ELSE IF source_node_uuid \notin NodeUuids(CurrentData) THEN Returns(w, VNone, FALSE)
          ELSE /\ Set(w, [walkers[w] EXCEPT !.pc = "L977", !.it = 0, !.body = body,
                                            !.src = source_node_uuid,
                                            !.xseq = current_sequence_name,
                                            !.xproj = all_sequences])
               /\ UNCHANGED <<main, cur>>
    /\ Emit(<<>>)
    /\ UNCHANGED <<engineVars, countVars>>

\* a faulty variant of UnderCap: one iteration too many
UnderCapOrAt(iteration_count) == iteration_count <= max_iterations
\* line 977: while iteration_count < max_iterations
UnderCap(iteration_count) == iteration_count < max_iterations

\* lines 977-981: the loop test; the condition source is executed again
WhileTest(w) ==
    /\ cur = w
    /\ walkers[w].pc = "L977"
    /\ LET f == walkers[w] IN
       IF UnderCap(f.it) /\ ~stop_requested
       THEN /\ Set(w, [f EXCEPT !.pc = "L893", !.xnode = f.src, !.xret = "L982"])
            /\ Emit(<<NodeState(current_sequence_name, f.src, "running")>>)
            /\ UNCHANGED <<main, cur>>
       ELSE LoopReturns(w, Finished, TRUE) /\ Emit(<<>>)
    /\ UNCHANGED <<engineVars, countVars>>

\* lines 988-996
ConditionTarget(live_value, condition_target_str) ==
    CoerceLiteral(live_value, condition_target_str)

\* a faulty variant of WhileGoesOn: the loop goes on whatever the value
AlwaysGoesOn(config, live_value) == TRUE
\* lines 998-1003: does the loop go on to its body?
WhileGoesOn(config, live_value) ==
    LET is_match == PyEq(live_value, ConditionTarget(live_value, config.while_condition_value))
    IN IF config.while_negate_condition THEN ~is_match ELSE is_match

\* lines 982-1007: the source has answered
WhileDecides(w) ==
    /\ cur = w
    /\ walkers[w].pc = "L982"
    /\ LET f == walkers[w]
           config == NodeOf(DataOf(w), f.node).config
           done == [f EXCEPT !.xnode = f.node, !.xret = "L838", !.rv = VNone, !.rs = FALSE]
       IN /\ Emit(<<NodeState(current_sequence_name, f.src,
                              IF f.rs THEN "success" ELSE "failed")>>)
          /\ IF ~f.rs THEN LoopReturns(w, VNone, FALSE)
             ELSE IF ~WhileGoesOn(config, f.rv) THEN LoopReturns(w, Finished, TRUE)
             ELSE IF f.body \in NodeUuids(SeqData(f.xproj, f.xseq))
             THEN Calls(w, [done EXCEPT !.pc = "L1007"],
                        NewWalk(current_sequence_name, f.xproj, f.body, TRUE,
                                "await", w, "L816"))
             ELSE /\ Set(w, [done EXCEPT !.pc = "L1010", !.it = @ + 1])
                  /\ cur' = NoTask
                  /\ UNCHANGED main
    /\ UNCHANGED <<engineVars, countVars>>

\* lines 1007-1010: a loop-body walk is over; its result is dropped
WhileBodyReturns(w) ==
    /\ cur = w
    /\ walkers[w].pc = "L1007"
    /\ IF Propagates(walkers[w].cs) THEN Return(w, VNone, "raise")
       ELSE /\ Set(w, [walkers[w] EXCEPT !.pc = "L1010", !.it = @ + 1,
                                         !.cv = VNone, !.cs = ""])
            /\ cur' = NoTask
            /\ UNCHANGED main
    /\ Emit(<<>>)
    /\ UNCHANGED <<engineVars, countVars>>

\* lines 1326-1331: the targets of the connections that leave the Fork
Branches(uuid) ==
    LET sequence_data == CurrentData
        out == SelectSeq(sequence_data.exec_connections,
                         LAMBDA c : /\ c.start_node_uuid = uuid
                                    /\ c.end_node_uuid \in NodeUuids(sequence_data))
    IN [k \in DOMAIN out |-> out[k].end_node_uuid]

\* execute_fork_node, lines 1323-1339: one task per branch, then gather
ExecFork(w) ==
    /\ Dispatch(w, "Fork")
    /\ walkers[w].xret = "L838"
    /\ LET branches == Branches(XNode(w).uuid)
           n == Len(branches)
       IN IF n = 0 THEN Returns(w, VBool(TRUE), TRUE)
          ELSE /\ Cardinality(FreeIds(walkers)) >= n
               /\ LET task == [k \in 1..n |-> NthFree(walkers, k)] IN
                  walkers' = [i \in Walkers |->
                     IF i = w THEN [walkers[w] EXCEPT !.pc = "L1339", !.kids = Range(task)]
                     ELSE IF \E k \in 1..n : task[k] = i
                     THEN NewWalk(current_sequence_name, all_sequences,
                                  branches[CHOOSE k \in 1..n : task[k] = i], TRUE,
                                  "task", w, "task_new")
                     ELSE walkers[i]]
               /\ cur' = NoTask
               /\ UNCHANGED main
    /\ Emit(<<>>)
    /\ UNCHANGED <<engineVars, countVars>>

\* a task made by asyncio.create_task runs for the first time
TaskStarts(w) ==
    /\ cur = NoTask
    /\ walkers[w].pc = "task_new"
    /\ Set(w, [walkers[w] EXCEPT !.pc = "L816"])
    /\ cur' = w
    /\ Emit(<<>>)
    /\ UNCHANGED <<engineVars, main, countVars>>

\* lines 1339-1341: gather is over, with every task done or with an exception
GatherReturns(w) ==
    /\ cur = NoTask
    /\ walkers[w].pc \in {"L1339_ready", "L1339_raise"}
    /\ IF walkers[w].pc = "L1339_raise" THEN Return(w, VNone, "raise")
       ELSE /\ Set(w, [walkers[w] EXCEPT !.pc = "L838", !.rv = VBool(TRUE), !.rs = TRUE])
            /\ cur' = w
            /\ UNCHANGED main
    /\ Emit(<<>>)
    /\ UNCHANGED <<engineVars, countVars>>

(***************************************************************************)
(* The specification.                                                      *)
(***************************************************************************)
Control ==
    \/ \E seqs \in DOMAIN Projects : \E name \in SeqNames(seqs) : \E loop \in BOOLEAN :
          run(name, seqs, loop)
    \/ resume
    \/ step_over
    \/ step_into_call
    \/ stop

Walk(w) ==
    \/ LoopTest(w)
    \/ PauseGate(w)
    \/ PauseGateOpens(w)
    \/ StepGate(w)
    \/ StepGateOpens(w)
    \/ StartNode(w)
    \/ TimerFires(w)
    \/ AfterExecute(w)
    \/ FindNext(w)
    \/ Advance(w)
    \/ LeaveLoop(w)

Execute(w) ==
    \/ ExecStaticValue(w)
    \/ ExecDelay(w)
    \/ DelayReturns(w)
    \/ ExecWriteValue(w)
    \/ WriteResolves(w)
    \/ WriteReturns(w)
    \/ ExecJoin(w)
    \/ ExecRunSequence(w)
    \/ RunSequenceReturns(w)
    \/ ExecForLoop(w)
    \/ ForIteration(w)
    \/ ForBodyReturns(w)
    \/ ExecWhileLoop(w)
    \/ WhileTest(w)
    \/ WhileDecides(w)
    \/ WhileBodyReturns(w)
    \/ ExecFork(w)
    \/ TaskStarts(w)
    \/ GatherReturns(w)

\* a step of the event loop: one task runs up to its next suspension
TaskStep ==
    \/ MainStart
    \/ MainFinally
    \/ MainRestart
    \/ \E w \in Walkers : Walk(w) \/ Execute(w)

Next == Control \/ TaskStep

Spec == Init /\ [][Next]_vars

(***************************************************************************)
(* Properties.                                                             *)
(***************************************************************************)
Started(uuid) == IF uuid \in DOMAIN started THEN started[uuid] ELSE 0
HasEvent(evs, kind) == \E i \in DOMAIN evs : evs[i].e = kind
\* the main loop awaits its walk, the engine says Running, and no task of the
\* event loop can take a step
Stranded == debug_state = "RUNNING" /\ main.pc = "L778" /\ ~ENABLED TaskStep

\* C1: the node that follows a Join has never been started more often than
\* the Fork whose branches converge on that Join has been executed: once per
\* execution of the Fork, for one branch (F1, D1) and for two (F2, D2).
C1_JoinBarrier ==
    /\ Started("D1") <= Started("F1")
    /\ Started("D2") <= Started("F2")

\* C2: once stop() has been accepted and the run is not yet over, no step
\* makes a node go "running".
C2_StopPreventsNextNode ==
    [][stop_requested => Runnings(emitted') = <<>>]_vars

\* C3: a stop request never leaves the run hanging: while the stop flag is
\* set, the engine is not left Running with no task able to run, a state
\* from which Idle and execution_finished(name, true) cannot follow.
C3_StopCompletesRun == stop_requested => ~Stranded

\* C4: after resume(), with no other control call since, the walker goes on:
\* the engine is not left Running with no task able to run.
C4_ResumeContinues == last_cmd = "resume" => ~Stranded

\* C5: after stepOver() or stepInto() at most one node goes "running" before
\* the engine is Paused again.
C5_SingleStep == stepping <= 1

\* C6: a walker with is_sub_sequence = true makes the engine Paused only when
\* the last accepted control call was stepInto.
C6_SubSequenceBreakpoint ==
    [][\A w \in Walkers :
          (cur = w /\ walkers[w].sub /\ HasEvent(emitted', "paused"))
          => last_cmd = "stepInto"]_vars

\* C7: once a node of the top-level walk has failed, with no control call
\* since run(), no node goes "running" any more and the run, when it is
\* over, has emitted execution_finished(name, false) exactly once.
C7_FailureEndsRun ==
    [][(top_failed /\ last_cmd = "run")
       => /\ Runnings(emitted') = <<>>
          /\ (debug_state' = "IDLE" => finished' = <<FALSE>>)]_vars

\* C8: a run() call made while the engine is not Idle emits nothing and
\* changes no field of the engine and no task.
C8_RunOnlyFromIdle ==
    [][(debug_state # "IDLE" /\ HasEvent(emitted', "call") /\ emitted'[1].st = "run")
       => /\ Len(emitted') = 1
          /\ UNCHANGED <<engineVars, taskVars>>]_vars
C8_Witness == debug_state = "PAUSED" /\ emitted = <<Call("run", FALSE)>>

\* C9: the first node a run starts is a node of the sequence that no
\* execution connection ends at; when every node of the sequence is the end
\* of some connection, no node starts, execution_finished(name, false) has
\* been emitted once and the engine is Idle.
Targets(sequence_data) == {c.end_node_uuid : c \in Range(sequence_data.exec_connections)}
C9_StartNode ==
    current_sequence_name # "" =>
      /\ first_node # "" =>
            first_node \in NodeUuids(CurrentData) \ Targets(CurrentData)
      /\ NodeUuids(CurrentData) \subseteq Targets(CurrentData) =>
            /\ started = <<>>
            /\ finished = <<FALSE>>
            /\ debug_state = "IDLE"
            /\ main = NoMain
C9_Witness ==
    /\ current_sequence_name = "Cyc"
    /\ emitted = <<Call("run", TRUE), ExecutionFinished("Cyc", FALSE)>>

\* C10: in the first pass of a run of "Wh", whose loop condition holds at
\* every check, with no control call since run(): the body node Bd never
\* starts more than max_iterations times, and when the While Loop has
\* returned it has started exactly max_iterations times and the result is
\* ("Finished", True).
WhileReturned(w) ==
    /\ walkers[w].node = "Wl"
    /\ walkers[w].pc = "L838"
    /\ walkers[w].ret = "main"
C10_WhileCap ==
    (current_sequence_name = "Wh" /\ last_cmd = "run" /\ passes = 0) =>
      /\ Started("Bd") <= max_iterations
      /\ \A w \in Walkers : WhileReturned(w) =>
            /\ Started("Bd") = max_iterations
            /\ walkers[w].rv = Finished
            /\ walkers[w].rs
C10_Witness ==
    /\ current_sequence_name = "Wh" /\ last_cmd = "run" /\ passes = 0
    /\ \E w \in Walkers : WhileReturned(w) /\ walkers[w].rv = Finished

\* C11: every start of a While Loop and every start of its body is preceded
\* by an execution of the loop's data source of its own (sequence "Wh"); a
\* loop whose first check ends it (negate, source 3, literal "3", sequence
\* "Wn") never starts its body and returns ("Finished", True).
Returned(w, uuid) ==
    /\ walkers[w].node = uuid
    /\ walkers[w].pc = "L838"
C11_WhileFreshCondition ==
    /\ current_sequence_name = "Wh" =>
          Started("Bd") + Started("Wl") <= Started("Src")
    /\ current_sequence_name = "Wn" =>
          /\ Started("Bz") = 0
          /\ Started("Wz") <= Started("Sn")
          /\ \A w \in Walkers : Returned(w, "Wz") =>
                walkers[w].rv = Finished /\ walkers[w].rs
C11_Witness ==
    /\ current_sequence_name = "Wn"
    /\ ~stop_requested /\ last_cmd = "run"
    /\ Started("Sn") = 2
    /\ \E w \in Walkers : Returned(w, "Wz") /\ walkers[w].rv = Finished

\* the first data connection of the walker's sequence that ends at the node
\* its executor was handed
DataEdgesAt(w) ==
    SelectSeq(DataOf(w).data_connections,
              LAMBDA c : c.end_node_uuid = walkers[w].xnode)
\* has_argument and use_connected_input are both set
UsesConnectedInput(config) == config.has_argument /\ config.use_connected_input
\* the executor of a Write Value is about to resolve its value; has resolved it
Resolving(w) == walkers[w].pc = "L1211"
Resolved(w) == walkers[w].pc = "L1217"
Resolution(w) == resolve_argument_value(XNode(w), current_sequence_name)
Literal(w) == ParseNumberOrText(XNode(w).config.argument_value)

\* C12, as stated: whenever no data connection ends at a node that resolves
\* its input, the resolution succeeds and gives the literal of the node's
\* configuration.
C12_ArgumentFallback ==
    \A w \in Walkers :
       (Resolving(w) /\ DataEdgesAt(w) = <<>>) =>
           Resolution(w).ok /\ Resolution(w).value = Literal(w)

\* C12, amended: a node that is not set to use a connected input resolves to
\* the literal of its configuration, a number when it parses as one ("5")
\* and the raw string otherwise ("ON"), whether or not a data connection
\* ends at it; a node set to use a connected input at which no data
\* connection ends fails to resolve.
C12_LiteralUnlessConnected ==
    \A w \in Walkers :
       /\ (Resolving(w) /\ ~UsesConnectedInput(XNode(w).config)) =>
             Resolution(w).ok /\ Resolution(w).value = Literal(w)
       /\ (Resolving(w) /\ UsesConnectedInput(XNode(w).config) /\ DataEdgesAt(w) = <<>>) =>
             ~Resolution(w).ok
       /\ (Resolved(w) /\ ~UsesConnectedInput(XNode(w).config)) =>
             walkers[w].cv = Literal(w)
       /\ (Resolved(w) /\ walkers[w].xnode = "Wv") => walkers[w].cv = VFloat(5)
       /\ (Resolved(w) /\ walkers[w].xnode = "We") => walkers[w].cv = VStr("ON")
C12_Witness ==
    \E w \in Walkers : Resolved(w) /\ walkers[w].xnode = "We" /\ walkers[w].cv = VStr("ON")

\* the executor of w leaves the resolution of its value in this step
Resolves(w) == Resolving(w) /\ walkers'[w].pc # "L1211"
SourceUnexecuted(w) ==
    /\ DataEdgesAt(w) # <<>>
    /\ DataEdgesAt(w)[1].start_node_uuid \notin DOMAIN execution_context
FailsAtOnce(w) ==
    /\ walkers'[w].pc = walkers[w].xret
    /\ ~walkers'[w].rs
    /\ walkers'[w].rv = VNone

\* C13, as stated: a node at which a data connection ends whose source has
\* no value in the execution context fails.
C13_UnexecutedSourceFails ==
    [][\A w \in Walkers : (Resolves(w) /\ SourceUnexecuted(w)) => FailsAtOnce(w)]_vars

\* C13, amended: a node set to use a connected input, at which a data
\* connection ends whose source has no value in the execution context,
\* fails with (None, False).
C13_ConnectedUnexecutedSourceFails ==
    [][\A w \in Walkers :
          (Resolves(w) /\ UsesConnectedInput(XNode(w).config) /\ SourceUnexecuted(w))
          => FailsAtOnce(w)]_vars
C13_Witness ==
    \E w \in Walkers :
       /\ walkers[w].node = "Wd" /\ walkers[w].pc = "L838" /\ ~walkers[w].rs
       /\ "Late" \notin DOMAIN execution_context


\* C14 (walker never raises): no invocation of _execute_graph ends with an
\* exception; every one returns a (value, succeeded) pair, the invocation
\* that finds the stop flag set and runs its loop zero times included.
C14_WalkerNeverRaises == [][~HasEvent(emitted', "raise")]_vars


\* the connection at index i leaves the node and its condition holds for v
Holds(ec, i, uuid, v) ==
    /\ ec[i].start_node_uuid = uuid
    /\ evaluate_condition(ec[i], v)
\* walker w chooses its next connection in this step (line 849)
Chooses(w) == cur = w /\ walkers[w].pc = "L849" /\ walkers'[w] # walkers[w]

\* C15 (next-edge choice): when a walker chooses the connection to follow
\* after a node, it takes the first connection of the sequence's list that
\* leaves the node and whose condition holds for the produced value, its walk
\* has no next node when there is none, and the choice changes no engine
\* state.
C15_NextEdgeChoice ==
    [][\A w \in Walkers : Chooses(w) =>
          LET ec == DataOf(w).exec_connections
              uuid == walkers[w].node
              v == walkers[w].value
          IN /\ \A i \in DOMAIN ec :
                   (Holds(ec, i, uuid, v) /\ \A j \in 1..(i - 1) : ~Holds(ec, j, uuid, v))
                   => /\ walkers'[w].active = ec[i]
                      /\ walkers'[w].nxt = ec[i].end_node_uuid
                      /\ walkers'[w].pc = "L853"
             /\ (\A i \in DOMAIN ec : ~Holds(ec, i, uuid, v))
                   => /\ walkers'[w].node = ""
                      /\ walkers'[w].active = NoConn
             /\ UNCHANGED engineVars]_vars
\* the walker that executed Fork F2, which two unconditional connections
\* leave, follows the first of them
C15_Witness ==
    \E w \in Walkers : /\ walkers[w].pc = "L853"
                        /\ walkers[w].node = "F2"
                        /\ walkers[w].nxt = "A2"


\* C16 (one sub-walk per fork target): a node on a branch that leaves a Fork
\* is executed once per execution of the Fork; the walk that executed the
\* Fork does not walk a branch again after the Fork has reported success.
C16_OneWalkPerBranch ==
    /\ Started("A1") <= Started("F1")
    /\ Started("A2") <= Started("F2")
    /\ Started("B2") <= Started("F2")


\* the walk of a pass of the run has returned to _run_main_loop (line 779)
PassEnded == main.pc = "L779"

\* C17 (Join counter reuse): when a pass of a looping run ends without a
\* stop request, the execution context holds no arrival counter of a Join,
\* so that the next pass counts only its own arrivals.
C17_JoinCounterCleared ==
    (PassEnded /\ is_looping /\ ~stop_requested) =>
        \A u \in DOMAIN execution_context : execution_context[u].t # "dict"


\* walker w, whose Join answered ("WAITING_FOR_JOIN", False), takes its step
\* at line 838
Parks(w) ==
    /\ cur = w
    /\ walkers[w].pc = "L838"
    /\ ~walkers[w].rs
    /\ walkers[w].rv = WAITING_FOR_JOIN
    /\ walkers'[w] # walkers[w]
IsFailed(ev) == ev.e = "node" /\ ev.st = "failed"

\* C18 (parked branch is not a failure): the walk of a branch that arrives
\* at a Join before the last arrival ends in that step with success, no
\* node goes "failed", the counter of the Join stays in the execution
\* context, and neither the Fork that waits for the branch nor the run is
\* made to fail.
C18_ParkedBranchSucceeds ==
    [][\A w \in Walkers : Parks(w) =>
          LET f == walkers[w]
              p == f.parent
          IN /\ walkers'[w] = FreeFrame
             /\ SelectSeq(emitted', IsFailed) = <<>>
             /\ ~HasEvent(emitted', "raise")
             /\ f.node \in DOMAIN execution_context'
             /\ execution_context'[f.node] = execution_context[f.node]
             /\ JoinWaits(execution_context'[f.node])
             /\ top_failed' = top_failed
             /\ f.ret = "task" => walkers'[p].pc \in {"L1339", "L1339_ready"}
             /\ f.ret = "await" => walkers'[p].cs = "ok"
             /\ f.ret = "main" => main'.pc = "L779"]_vars
\* one branch of Fork F2 has parked at J2 and the Fork waits for the other
C18_Witness ==
    /\ "J2" \in DOMAIN execution_context
    /\ execution_context["J2"] = VJoin(1, 2)
    /\ ~top_failed
    /\ \E w \in Walkers : /\ walkers[w].pc = "L1339"
                          /\ walkers[w].xnode = "F2"
                          /\ Cardinality(walkers[w].kids) = 1


\* the tasks a Fork has created that have not ended
Spawned(w) == {c \in Walkers : walkers[c].ret = "task" /\ walkers[c].parent = w}
\* walker w executes, in this step, a Fork that no connection leaves
ForksNothing(w) ==
    /\ cur = w
    /\ walkers[w].pc = "L893"
    /\ XNode(w).node_type = "Fork"
    /\ Branches(XNode(w).uuid) = <<>>
    /\ walkers'[w] # walkers[w]

\* C19 (Fork awaits its branches): while a task that a Fork created has not
\* ended, the walk that executed the Fork stays suspended in the Fork at
\* line 1339, so the Fork has not reported success and that walk starts no
\* node; a Fork that no connection leaves reports (True, True) in the same
\* step and creates no task.
C19_ForkAwaitsBranches ==
    /\ [](\A w \in Walkers :
            /\ Spawned(w) # {} => /\ walkers[w].pc = "L1339"
                                  /\ Spawned(w) = walkers[w].kids
            /\ (walkers[w].pc = "L838" /\ walkers[w].xnode \in {"F1", "F2", "F0"})
                  => /\ walkers[w].rs
                     /\ walkers[w].rv = VBool(TRUE)
                     /\ Spawned(w) = {})
    /\ [][\A w \in Walkers : ForksNothing(w) =>
             /\ walkers'[w].pc = "L838"
             /\ walkers'[w].rs
             /\ walkers'[w].rv = VBool(TRUE)
             /\ \A c \in Walkers \ {w} : walkers'[c] = walkers[c]]_vars
\* Fork F2 reports success after the two tasks it created have ended
C19_Witness ==
    \E w \in Walkers : /\ walkers[w].pc = "L838"
                        /\ walkers[w].xnode = "F2"
                        /\ walkers[w].rs
                        /\ Started("A2") >= 1
                        /\ Started("B2") >= 1


\* walker w executes a Fork in this step
ExecutesFork(w) ==
    /\ cur = w
    /\ walkers[w].pc = "L893"
    /\ XNode(w).node_type = "Fork"
    /\ walkers'[w] # walkers[w]
\* the connections that leave the node in the sequence that contains it
OwnBranches(w) ==
    SelectSeq(DataOf(w).exec_connections,
              LAMBDA c : c.start_node_uuid = walkers[w].xnode)
\* the tasks created in this step for walker w
NewTasks(w) ==
    {c \in Walkers : /\ walkers[c].pc = "free"
                     /\ walkers'[c].pc = "task_new"
                     /\ walkers'[c].parent = w}

\* C20 (nodes of a sub-sequence use their own graph): a Fork creates one
\* task for each connection that leaves it in the sequence that contains
\* it, also when that sequence runs as a sub-sequence of a Run Sequence
\* node.
C20_ForkUsesOwnGraph ==
    [][\A w \in Walkers : ExecutesFork(w) =>
          Cardinality(NewTasks(w)) = Len(OwnBranches(w))]_vars


\* walker w is a sub-run that a Run Sequence node awaits, and ends in this step
SubRunEnds(w) ==
    /\ walkers[w].ret = "await"
    /\ walkers[walkers[w].parent].pc = "L1077"
    /\ walkers'[w] = FreeFrame
\* walker w executes a Run Sequence node whose sub-sequence cannot be run
NoSubRun(w) ==
    LET sub_sequence_name == XNode(w).config.sequence_name IN
    /\ cur = w
    /\ walkers[w].pc = "L893"
    /\ XNode(w).node_type = "Run Sequence"
    /\ walkers'[w] # walkers[w]
    /\ \/ sub_sequence_name = ""
       \/ sub_sequence_name \notin SeqNames(all_sequences)
       \/ \A n \in Range(SeqData(all_sequences, sub_sequence_name).nodes) :
             n.uuid \in Targets(SeqData(all_sequences, sub_sequence_name))

\* C21 (RunSequence propagation): a sub-run that ends hands its last
\* produced value and its success to the Run Sequence node, which reports
\* success exactly when the sub-run succeeded, with that value, and that
\* value chooses the connection followed after the node; a Run Sequence node
\* whose name is empty, unknown or names a sequence without a start node
\* fails in the same step and no node of a sub-sequence starts.
C21_RunSequencePropagates ==
    [][\A w \in Walkers :
          /\ SubRunEnds(w) =>
                LET p == walkers[w].parent IN
                /\ walkers'[p].cs \in {"ok", "fail", "raise"}
                /\ walkers'[p].cs = "ok" => walkers'[p].cv = walkers[w].value
                /\ walkers'[p].cs = "fail" => ~walkers[w].rs
          /\ (cur = w /\ walkers[w].pc = "L1077" /\ walkers[w].cs # "raise"
                /\ walkers'[w] # walkers[w]) =>
                /\ walkers'[w].pc = "L838"
                /\ walkers'[w].rs = (walkers[w].cs = "ok")
                /\ walkers[w].cs = "ok" => walkers'[w].rv = walkers[w].cv
          /\ (cur = w /\ walkers[w].pc = "L838" /\ walkers[w].rs
                /\ walkers[w].xnode \in {"R", "Rc", "Rf"}) =>
                walkers'[w].value = walkers[w].rv
          /\ NoSubRun(w) =>
                /\ walkers'[w].pc = "L838"
                /\ ~walkers'[w].rs
                /\ \A c \in Walkers \ {w} : walkers'[c] = walkers[c]
                /\ Runnings(emitted') = <<>>]_vars
\* the sub-run of "FJ1" yielded 5.0 and the walk follows the connection
\* that asks for 5
C21_Witness ==
    \E w \in Walkers : /\ walkers[w].pc = "L853"
                        /\ walkers[w].node = "Rc"
                        /\ walkers[w].value = VFloat(5)
                        /\ walkers[w].nxt = "Ok"


\* the keys of ops_map
ComparisonOperators == {"==", "!=", ">", "<", ">=", "<="}
\* a simple condition whose literal float() rejects for a numeric result,
\* or whose operator is no key of ops_map and no special case
CannotCompare(condition, result) ==
    /\ condition.present
    /\ condition.type # "expression"
    /\ condition.has_value
    /\ \/ /\ condition.operator \in ComparisonOperators
          /\ result.t = "float"
          /\ condition.value \notin DOMAIN FloatLiterals
       \/ condition.operator \notin ComparisonOperators \cup
             {"No Condition", "Loop Body", "Finished", "is True", "is False"}

\* C22 (simple-condition fail-safe): a walker that chooses its next
\* connection never follows a connection whose comparison literal cannot be
\* coerced to the type of the produced value, or whose operator is not one
\* of the six comparisons: such a condition evaluates false.
C22_UncoercibleIsFalse ==
    [][\A w \in Walkers : Chooses(w) =>
          LET ec == DataOf(w).exec_connections IN
          \A i \in DOMAIN ec :
             (/\ ec[i].start_node_uuid = walkers[w].node
              /\ CannotCompare(ec[i].condition, walkers[w].value))
             => walkers'[w].active # ec[i]]_vars


\* the walks of the loop body that walker w awaits
BodyWalks(w) ==
    {c \in Walkers : walkers[c].ret = "await" /\ walkers[c].parent = w}

\* C23 (ForLoop iteration count): in a run of "For" that no command has
\* followed, the For Loop of 2 iterations has walked its body twice for each
\* of its executions when it returns, it returns ("Finished", True), at most
\* one walk of the body exists at a time, and the walk then follows the
\* connection labelled "Finished" to Ef, not the "Loop Body" connection.
C23_ForLoopCount ==
    (current_sequence_name = "For" /\ last_cmd = "run") =>
        \A w \in Walkers :
            /\ walkers[w].node = "Fl" => Cardinality(BodyWalks(w)) <= 1
            /\ Returned(w, "Fl") =>
                  /\ walkers[w].rv = Finished
                  /\ walkers[w].rs
                  /\ Started("Bf") = 2 * Started("Fl")
            /\ (walkers[w].node = "Fl" /\ walkers[w].pc = "L853") =>
                  walkers[w].nxt = "Ef"
            /\ Started("Ef") <= Started("Fl")
            /\ Started("Bf") <= 2 * Started("Fl")
\* the loop is over after two walks of Bf and the walk goes on to Ef
C23_Witness ==
    /\ current_sequence_name = "For"
    /\ last_cmd = "run"
    /\ Started("Bf") = 2
    /\ \E w \in Walkers : /\ walkers[w].node = "Fl"
                          /\ walkers[w].pc = "L853"
                          /\ walkers[w].nxt = "Ef"


\* the step is a call of op that the engine refused
Refused(op) == emitted' = <<Call(op, FALSE)>>

\* C24 (debug state machine): debug_state changes only from Idle to Running
\* by an accepted run(), from Running to Paused at a breakpoint, from Paused
\* to Running by a walker that is released, and from Running to Idle when
\* the run ends; resume, stepOver, stepInto and stop called in Idle change
\* nothing of the engine.
C24_DebugStateMachine ==
    [][/\ \/ debug_state' = debug_state
          \/ /\ debug_state = "IDLE"
             /\ debug_state' = "RUNNING"
             /\ emitted' = <<Call("run", TRUE)>>
          \/ /\ debug_state = "RUNNING"
             /\ debug_state' = "PAUSED"
             /\ HasEvent(emitted', "paused")
          \/ /\ debug_state = "PAUSED"
             /\ debug_state' = "RUNNING"
             /\ cur \in Walkers
          \/ /\ debug_state = "RUNNING"
             /\ debug_state' = "IDLE"
             /\ HasEvent(emitted', "finished")
       /\ (debug_state = "IDLE" /\ \E op \in {"resume", "stepOver", "stepInto", "stop"} :
                                       Refused(op) \/ emitted' = <<Call(op, TRUE)>>)
             => UNCHANGED <<engineVars, taskVars>>]_vars


\* C25 (one pause at a time): execution_paused is emitted in exactly the
\* steps that take debug_state from Running to Paused, and a walker that
\* comes to a breakpoint node while the pause gate is closed emits nothing
\* and goes to wait at the gate.
C25_OnePauseAtATime ==
    [][/\ HasEvent(emitted', "paused")
            <=> (debug_state = "RUNNING" /\ debug_state' = "PAUSED")
       /\ \A w \in Walkers :
             (/\ cur = w
              /\ walkers[w].pc = "L816"
              /\ walkers[w].node # ""
              /\ ~stop_requested
              /\ NodeOf(DataOf(w), walkers[w].node).has_breakpoint
              /\ ~pause_event)
             => /\ emitted' = <<>>
                /\ walkers'[w].pc = "L823"
                /\ UNCHANGED <<debug_state, pause_event>>]_vars


\* C26 (failures in branches and loop bodies are not propagated): a Fork
\* or a loop that has awaited a failed walk does not end there: it goes on
\* as after a successful one; in a run of "Np" that no command has followed,
\* the For Loop returns ("Finished", True) after the two failed walks of
\* its body and the While Loop after the max_iterations failed walks of its
\* body, for each of their executions, the Fork returns (True, True) after its
\* branch has failed, and the walk goes on past each of them.
C26_FailuresNotPropagated ==
    /\ [](\A w \in Walkers :
            (current_sequence_name = "Np" /\ last_cmd = "run") =>
               /\ Returned(w, "Fb") => /\ walkers[w].rv = VStr("Finished")
                                       /\ walkers[w].rs
                                       /\ Started("Wq") = 2 * Started("Fb")
               /\ Returned(w, "Wb") => /\ walkers[w].rv = VStr("Finished")
                                       /\ walkers[w].rs
                                       /\ Started("Wy") = max_iterations * Started("Wb")
               /\ Returned(w, "Fk") => /\ walkers[w].rv = VBool(TRUE)
                                       /\ walkers[w].rs
                                       /\ Started("Wk") >= Started("Fk"))
    /\ [][\A w \in Walkers :
             (cur = w /\ walkers[w].cs = "fail") =>
                /\ walkers[w].pc = "L1044" => walkers'[w].pc = "L1037"
                /\ walkers[w].pc = "L1007" => walkers'[w].pc = "L1010"]_vars
    /\ [][\A w \in Walkers :
             (/\ cur = w
              /\ walkers[w].ret = "task"
              /\ walkers[w].pc = "L838"
              /\ ~walkers[w].rs
              /\ walkers[w].rv = VNone)
             => walkers'[walkers[w].parent].pc \in {"L1339", "L1339_ready"}]_vars
\* the Fork Fk has reported success after its branch Wk failed, behind the
\* two loops whose bodies failed
C26_Witness ==
    /\ current_sequence_name = "Np"
    /\ last_cmd = "run"
    /\ Started("Wq") = 2
    /\ Started("Wy") = 2
    /\ \E w \in Walkers : /\ walkers[w].node = "Fk"
                          /\ walkers[w].pc = "L847"
                          /\ Started("Wk") = 1


\* C27 (the pause gate holds every walker): while debug_state is Paused and
\* no resume, stepOver, stepInto or stop has reopened the gate, no walker
\* starts a node.
C27_PauseHoldsWalkers ==
    [][(debug_state = "PAUSED" /\ ~pause_event) => Runnings(emitted') = <<>>]_vars


\* C28 (step-into mode is per run): a run that run() has accepted and in
\* which no command has followed has step-into mode off, and no walk of a
\* sub-sequence, loop body or fork branch pauses the engine in it.
C28_StepIntoPerRun ==
    /\ [](last_cmd = "run" => ~step_into)
    /\ [][\A w \in Walkers :
             (/\ last_cmd = "run"
              /\ cur = w
              /\ walkers[w].sub
              /\ walkers[w].pc = "L816")
             => ~HasEvent(emitted', "paused")]_vars


\* the node state st is emitted for node uuid in this step
NodeGoes(uuid, st) ==
    \E i \in DOMAIN emitted' : /\ emitted'[i].e = "node"
                                /\ emitted'[i].a = uuid
                                /\ emitted'[i].st = st

\* C29 (node state events are paired): a walker that has emitted "running"
\* for a node and takes the result of the executor emits "success" or
\* "failed" for that node in the same step, and it does not end between the
\* "running" and that step.
C29_NodeEventsPaired ==
    [][\A w \in Walkers :
          /\ (cur = w /\ walkers[w].pc = "L838" /\ walkers'[w] # walkers[w])
                => NodeGoes(walkers[w].node, "success") \/ NodeGoes(walkers[w].node, "failed")
          /\ (walkers[w].xret = "L838" /\ walkers[w].pc # "L838")
                => walkers'[w] # FreeFrame]_vars

\* the lines of _execute_graph between the "active" of line 852 and the
\* "idle" of line 831 or 858
LitLines ==
    {"L853", "L855", "L816", "L823", "L823_wait", "L823_ready", "L825",
     "L827_wait", "L827_ready", "L830", "L857"}
\* walker w has highlighted the connection it holds and not yet cleared it
Lit(w) == walkers[w].active # NoConn /\ walkers[w].pc \in LitLines
\* the connection state st is emitted for connection c in this step
ConnGoes(seq, c, st) == \E i \in DOMAIN emitted' : emitted'[i] = ConnState(seq, c, st)

\* C30 (connection highlights are always cleared): a walker that emits
\* "active" for a connection holds that connection as highlighted, keeps it
\* while it is highlighted, and whenever it stops holding it as highlighted,
\* its return included, it emits "idle" for the same connection in that step.
C30_HighlightCleared ==
    [][\A w \in Walkers :
          /\ (cur = w /\ walkers[w].pc = "L849" /\ HasEvent(emitted', "conn"))
                => /\ Lit(w)'
                   /\ ConnGoes(walkers[w].seq, walkers'[w].active, "active")
          /\ (Lit(w) /\ Lit(w)') => walkers'[w].active = walkers[w].active
          /\ (Lit(w) /\ ~Lit(w)')
                => ConnGoes(walkers[w].seq, walkers[w].active, "idle")]_vars
\* a walk has ended on an edge whose target is no node of the sequence and
\* has cleared the highlight of that edge
C30_Witness ==
    /\ \E i \in DOMAIN emitted :
          emitted[i] = ConnState("Call", Conn("Ok", "Gone", NoCondition), "idle")
    /\ \A w \in Walkers : walkers[w].seq # "Call"

====
